---- MODULE Spec2Model ----
(***************************************************************************)
(* Model of the restaurant search of essensfindung: the rating store       *)
(* (db/crud/bewertung.py), the service layer (services/service_res.py)     *)
(* and the place-search client (infrastructure/gapi.py).                   *)
(*                                                                         *)
(* A Python Optional is a sequence of length at most one: None is <<>>,    *)
(* a present value v is <<v>>.                                             *)
(***************************************************************************)
EXTENDS Integers, Sequences, FiniteSets, TLC

VARIABLES
    users,          \* Person table: the e-mail addresses registered
    restaurants,    \* restaurant table: the place_ids stored (primary key)
    bewertungen,    \* bewertung table: the rows, in insertion order
    op,             \* name of the last call made, "none" before the first
    args,           \* the arguments of that call
    exc,            \* the exception it raised, "none" if it returned
    ret,            \* the value it returned (None when it raised)
    pre,            \* bewertungen as it was when the call started
    pc,             \* search_for_restaurant: position of each request
    loc             \* local variables: of each search_for_restaurant request,
                    \* or of the last call where a property reads them

vars == <<users, restaurants, bewertungen, op, args, exc, ret, pre, pc, loc>>

store == <<users, restaurants, bewertungen>>
call  == <<op, args, exc, ret, pre>>
procs == <<pc, loc>>

----------------------------------------------------------------------------
(* Bounds *)

MaxRows    == 2     \* rows the bewertung table may hold
MaxPlaces  == 2     \* place_ids 1..MaxPlaces
MaxRating  == 2     \* ratings a stored Bewertung may carry, 1..MaxRating
MaxStars   == 5     \* external ratings of a candidate, 0..MaxStars
MaxLen     == 3     \* candidates in a list that is filtered
MaxSel     == 2     \* candidates in a list that is drawn from
MaxPages   == 2     \* result pages the place-search service holds
MaxPerPage == 2     \* results on one page
MaxFound   == 2     \* candidates a search hands to search_for_restaurant
NumReqs    == 2     \* search_for_restaurant requests in flight

Persons  == {"u1", "u2"}       \* "u2" never signs up
PlaceIds == 1..MaxPlaces
Comments == {"a"}               \* the comment text is copied, never read
Ratings  == 1..MaxRating

----------------------------------------------------------------------------
(* Python values *)

None    == <<>>
Some(v) == <<v>>
Val(o)  == o[1]

Returned(db, v) == [db |-> db, exc |-> "none", ret |-> v]
Raised(db, e)   == [db |-> db, exc |-> e, ret |-> None]

DB == [users |-> users, restaurants |-> restaurants, bewertungen |-> bewertungen]

Assessments ==
    [person : Persons, place_id : PlaceIds, comment : Comments, rating : Ratings]

\* the old assessment of an update is read for its person and restaurant only
OldAssessments ==
    [person : Persons, place_id : PlaceIds, comment : Comments, rating : {1}]

----------------------------------------------------------------------------
(* db/crud: lookups and the tables *)

get_user_by_mail(db, email) ==
    IF email \in db.users THEN Some(email) ELSE None

get_restaurant_by_id(db, place_id) ==
    IF place_id \in db.restaurants THEN Some(place_id) ELSE None

\* db.add + db.commit on the restaurant table: place_id is the primary key
create_restaurant(db, place_id) ==
    IF place_id \in db.restaurants
    THEN Raised(db, "IntegrityError")
    ELSE Returned([db EXCEPT !.restaurants = @ \cup {place_id}], Some(place_id))

\* db.add + db.commit on the bewertung table: the row gets a fresh id, and
\* no constraint of the table keeps (person_email, place_id) unique
DbAdd(table, row) == Append(table, row)

\* the rows a query filtered on (person_email, place_id) matches
Matching(table, email, place_id) ==
    {i \in 1..Len(table) : table[i].person_email = email /\ table[i].place_id = place_id}

\* .first() of the joined query: without ORDER BY any matching row may come
\* first, so this is the set of the values the call can return
get_bewertung_from_user_to_rest(db, email, place_id) ==
    LET m == {i \in Matching(db.bewertungen, email, place_id) :
                 /\ db.bewertungen[i].person_email \in db.users
                 /\ db.bewertungen[i].place_id \in db.restaurants}
    IN  IF m = {} THEN {None} ELSE {Some(db.bewertungen[i]) : i \in m}

\* create_bewertung without its lookup of the restaurant
create_bewertung_no_restaurant_check(db, assessment) ==
    IF get_user_by_mail(db, assessment.person) = None
    THEN Raised(db, "InvalidRequestError")
    ELSE LET db_assessment == [person_email |-> assessment.person,
                               place_id     |-> assessment.place_id,
                               kommentar    |-> assessment.comment,
                               rating       |-> assessment.rating]
         IN  Returned([db EXCEPT !.bewertungen = DbAdd(@, db_assessment)],
                      Some(db_assessment))

create_bewertung(db, assessment) ==
    IF get_user_by_mail(db, assessment.person) = None
    THEN Raised(db, "InvalidRequestError")
    ELSE IF get_restaurant_by_id(db, assessment.place_id) = None
    THEN Raised(db, "InvalidRequestError")
    ELSE LET db_assessment == [person_email |-> assessment.person,
                               place_id     |-> assessment.place_id,
                               kommentar    |-> assessment.comment,
                               rating       |-> assessment.rating]
         IN  Returned([db EXCEPT !.bewertungen = DbAdd(@, db_assessment)],
                      Some(db_assessment))

\* Query.update on the rows matching the old (person, restaurant), then the
\* lookup of the new (person, restaurant): the set of possible outcomes
update_bewertung(db, old_bewertung, new_bewertung) ==
    LET m   == Matching(db.bewertungen, old_bewertung.person, old_bewertung.place_id)
        tbl == [i \in 1..Len(db.bewertungen) |->
                   IF i \in m
                   THEN [db.bewertungen[i] EXCEPT !.kommentar = new_bewertung.comment,
                                                  !.rating    = new_bewertung.rating]
                   ELSE db.bewertungen[i]]
        db2 == [db EXCEPT !.bewertungen = tbl]
    IN  {Returned(db2, r) :
            r \in get_bewertung_from_user_to_rest(db2, new_bewertung.person,
                                                  new_bewertung.place_id)}

delete_bewertung(db, email, place_id) ==
    LET m    == Matching(db.bewertungen, email, place_id)
        keep == SelectSeq(db.bewertungen,
                          LAMBDA b : ~(b.person_email = email /\ b.place_id = place_id))
    IN  Returned([db EXCEPT !.bewertungen = keep], Some(Cardinality(m)))

----------------------------------------------------------------------------
(* services/service_res.py: the assessment calls *)

\* RestBewertungReturn(comment=..., rating=...) of a row
RestBewertungReturn(row) == [comment |-> row.kommentar, rating |-> row.rating]

add_assessment(db, assessment) ==
    LET created == create_bewertung(db, assessment)
    IN  IF created.exc # "none"
        THEN created
        ELSE Returned(created.db, Some(RestBewertungReturn(Val(created.ret))))

\* the attribute access on the result of update_bewertung fails on None
update_assessment(db, old_assessment, new_assessment) ==
    {IF updated.ret = None
     THEN Raised(updated.db, "AttributeError")
     ELSE Returned(updated.db, Some(RestBewertungReturn(Val(updated.ret)))) :
        updated \in update_bewertung(db, old_assessment, new_assessment)}

delete_assessment(db, email, place_id) == delete_bewertung(db, email, place_id)

----------------------------------------------------------------------------
(* The rating store driven by its callers *)

Apply(name, a, o) ==
    /\ users' = o.db.users
    /\ restaurants' = o.db.restaurants
    /\ bewertungen' = o.db.bewertungen
    /\ op' = name
    /\ args' = a
    /\ exc' = o.exc
    /\ ret' = o.ret
    /\ pre' = bewertungen
    /\ UNCHANGED procs

CreateRestaurant ==
    \E p \in PlaceIds :
        Apply("create_restaurant", [place_id |-> p], create_restaurant(DB, p))

CreateBewertung ==
    \E a \in Assessments :
        /\ Len(bewertungen) < MaxRows
        /\ Apply("create_bewertung", [assessment |-> a], create_bewertung(DB, a))

AddAssessment ==
    \E a \in Assessments :
        /\ Len(bewertungen) < MaxRows
        /\ Apply("add_assessment", [assessment |-> a], add_assessment(DB, a))

UpdateBewertung ==
    \E old \in OldAssessments, new \in Assessments :
        \E o \in update_bewertung(DB, old, new) :
            Apply("update_bewertung", [old |-> old, new |-> new], o)

UpdateAssessment ==
    \E old \in OldAssessments, new \in Assessments :
        \E o \in update_assessment(DB, old, new) :
            Apply("update_assessment", [old |-> old, new |-> new], o)

DeleteAssessment ==
    \E u \in Persons, p \in PlaceIds :
        Apply("delete_assessment", [person |-> u, place_id |-> p],
              delete_assessment(DB, u, p))

NoCall ==
    /\ op = "none"
    /\ args = None
    /\ exc = "none"
    /\ ret = None
    /\ pre = <<>>

NoProcs ==
    /\ pc = <<>>
    /\ loc = <<>>

InitStore ==
    /\ users = {"u1"}
    /\ restaurants = {}
    /\ bewertungen = <<>>
    /\ NoCall
    /\ NoProcs

NextStore ==
    \/ CreateRestaurant
    \/ CreateBewertung
    \/ AddAssessment
    \/ UpdateBewertung
    \/ UpdateAssessment
    \/ DeleteAssessment

SpecStore == InitStore /\ [][NextStore]_vars

\* the store driven by the calls that add and remove rows
NextCreate ==
    \/ CreateRestaurant
    \/ CreateBewertung
    \/ AddAssessment
    \/ DeleteAssessment

SpecCreate == InitStore /\ [][NextCreate]_vars

----------------------------------------------------------------------------
(* services/service_res.py: the filter stage *)

\* list.remove(x): drops the first element equal to x
RECURSIVE remove(_, _)
remove(list, x) ==
    IF list = <<>> THEN <<>>
    ELSE IF Head(list) = x THEN Tail(list)
    ELSE <<Head(list)>> \o remove(Tail(list), x)

\* the for loop of filter_rating: the list iterator is at (0-based) index i
\* of the list as it is now, and stops when i reaches its current length;
\* None < rating is a TypeError
RECURSIVE filter_rating_loop(_, _, _)
filter_rating_loop(rests, rating, i) ==
    IF i >= Len(rests)
    THEN [exc |-> "none", ret |-> Some(rests)]
    ELSE LET res == rests[i + 1]
         IN  IF res.rating = None
             THEN [exc |-> "TypeError", ret |-> None]
             ELSE IF Val(res.rating) < rating
             THEN filter_rating_loop(remove(rests, res), rating, i + 1)
             ELSE filter_rating_loop(rests, rating, i + 1)

filter_rating(rests, rating) == filter_rating_loop(rests, rating, 0)

apply_filter(rests, user_f) == filter_rating(rests, user_f.rating)

\* candidates as the search returns them: no own rating yet, the place_id
\* of the k-th candidate is k
Stars == {None} \cup {Some(r) : r \in 0..MaxStars}

FreshLists(n) ==
    UNION {[1..k -> [place_id : {0}, rating : Stars, own_rating : {None}]] : k \in 0..n}

Numbered(list) == [k \in 1..Len(list) |-> [list[k] EXCEPT !.place_id = k]]

Pure(name, a, o, locals) ==
    /\ op' = name
    /\ args' = a
    /\ exc' = o.exc
    /\ ret' = o.ret
    /\ loc' = locals
    /\ UNCHANGED <<store, pre, pc>>

FilterRating ==
    /\ op = "none"
    /\ Pure("filter_rating", args, filter_rating(args.rests, args.user_f.rating), loc)

ApplyFilter ==
    /\ op = "none"
    /\ Pure("apply_filter", args, apply_filter(args.rests, args.user_f), loc)

InitFilter ==
    /\ users = {}
    /\ restaurants = {}
    /\ bewertungen = <<>>
    /\ op = "none"
    /\ \E l \in FreshLists(MaxLen), r \in 0..MaxStars :
           args = [rests |-> Numbered(l), user_f |-> [rating |-> r]]
    /\ exc = "none"
    /\ ret = None
    /\ pre = <<>>
    /\ NoProcs

NextFilter ==
    \/ FilterRating
    \/ ApplyFilter

SpecFilter == InitFilter /\ [][NextFilter]_vars

----------------------------------------------------------------------------
(* services/service_res.py: the weighted draw *)

\* own_rating * 4 + rating * 2 with the multipliers exchanged
weight_exchanged(res) == Val(res.own_rating) * 2 + Val(res.rating) * 4

\* the weight appended for a candidate whose ratings are both set
weight(res) == Val(res.own_rating) * 4 + Val(res.rating) * 2

\* the two assignments that replace a rating of None by 0
zero_if_none(res) ==
    LET r1 == IF res.own_rating = None THEN [res EXCEPT !.own_rating = Some(0)] ELSE res
    IN  IF r1.rating = None THEN [r1 EXCEPT !.rating = Some(0)] ELSE r1

\* the for loop of select_restaurant over rests[i..]: the candidates as the
\* loop leaves them, and the weights appended
RECURSIVE select_weights(_, _, _)
select_weights(rests, weights, i) ==
    IF i > Len(rests)
    THEN [rests |-> rests, weights |-> weights]
    ELSE LET res == zero_if_none(rests[i])
         IN  select_weights([rests EXCEPT ![i] = res], Append(weights, weight(res)), i + 1)

\* itertools.accumulate(weights)
RECURSIVE accumulate(_)
accumulate(weights) ==
    IF weights = <<>> THEN <<>>
    ELSE LET front == accumulate(SubSeq(weights, 1, Len(weights) - 1))
         IN  Append(front, (IF front = <<>> THEN 0 ELSE front[Len(front)])
                           + weights[Len(weights)])

\* bisect.bisect(a, x, lo, hi), on 0-based indices
RECURSIVE bisect(_, _, _, _)
bisect(a, x, lo, hi) ==
    IF lo < hi
    THEN LET mid == (lo + hi) \div 2
         IN  IF x < a[mid + 1] THEN bisect(a, x, lo, mid) ELSE bisect(a, x, mid + 1, hi)
    ELSE lo

\* random.choices(population, weights=weights, k=1)[0] of Python 3.9 and
\* later (gapi.py subscripts list in an annotation): the set of outcomes.
\* random() * total lies in [0, total); with integer weights the whole
\* numbers of that interval reach every index a real number reaches.
choices(population, weights) ==
    LET n           == Len(population)
        cum_weights == accumulate(weights)
        total       == cum_weights[n]
    IN  IF n = 0 THEN {[exc |-> "IndexError", ret |-> None]}
        ELSE IF total <= 0 THEN {[exc |-> "ValueError", ret |-> None]}
        ELSE {[exc |-> "none",
               ret |-> Some(population[bisect(cum_weights, x, 0, n - 1) + 1])] :
                 x \in 0..(total - 1)}

\* the outcomes of select_restaurant, each with the locals of the call
select_restaurant(rests) ==
    LET w == select_weights(rests, <<>>, 1)
    IN  {[exc |-> o.exc, ret |-> o.ret, rests |-> w.rests, weights |-> w.weights] :
            o \in choices(w.rests, w.weights)}

OwnStars == {None} \cup {Some(r) : r \in 0..MaxRating}

RatedLists(n) ==
    UNION {[1..k -> [place_id : {0}, rating : Stars, own_rating : OwnStars]] : k \in 0..n}

SelectRestaurant ==
    /\ op = "none"
    /\ \E o \in select_restaurant(args.rests) :
           Pure("select_restaurant", args, o, [rests |-> o.rests, weights |-> o.weights])

InitSelect ==
    /\ users = {}
    /\ restaurants = {}
    /\ bewertungen = <<>>
    /\ op = "none"
    /\ \E l \in RatedLists(MaxSel) : args = [rests |-> Numbered(l)]
    /\ exc = "none"
    /\ ret = None
    /\ pre = <<>>
    /\ NoProcs

NextSelect == SelectRestaurant

SpecSelect == InitSelect /\ [][NextSelect]_vars

----------------------------------------------------------------------------
(* infrastructure/gapi.py: the place-search client *)

(* The service is the input of a search: service.pages[t + 1] is the
   answer to a nearby-search request with page token t (0: no token), with
   its status ("ok", or the httpx error the request ends in), its results
   (place_ids) and its next_page_token (0: none); service.details[p] is
   the status of the details request for place p. *)

\* the exceptions `except httpx.HTTPError` catches, narrowed to the one
\* raise_for_status raises
HTTPError_status_only == {"HTTPStatusError"}

\* the exceptions `except httpx.HTTPError` catches: the error of httpx.get
\* and the error of raise_for_status
HTTPError == {"RequestError", "HTTPStatusError"}

\* Restaurant.parse_obj of one result of the listing
parse_obj(place_id) ==
    [place_id |-> place_id, homepage |-> None, maps_url |-> None,
     phone_number |-> None, adr |-> None]

\* the "result" object of the details response for a place
details_result(place_id) ==
    [website                    |-> Some([field |-> "website", of |-> place_id]),
     url                        |-> Some([field |-> "url", of |-> place_id]),
     international_phone_number |-> Some([field |-> "phone", of |-> place_id]),
     formatted_address          |-> Some([field |-> "address", of |-> place_id])]

RECURSIVE nearby_search(_, _)
nearby_search(service, next_page_token) ==
    LET response == service.pages[next_page_token + 1]
    IN  IF response.status # "ok"
        THEN [exc |-> response.status, ret |-> None]
        ELSE LET rests == [k \in 1..Len(response.results) |->
                                    parse_obj(response.results[k])]
             IN  IF response.next_page_token # 0
                 THEN LET more == nearby_search(service, response.next_page_token)
                      IN  IF more.exc # "none"
                          THEN more
                          ELSE [exc |-> "none", ret |-> Some(rests \o Val(more.ret))]
                 ELSE [exc |-> "none", ret |-> Some(rests)]

\* the for loop of place_details over the restaurants rests[i..]
RECURSIVE place_details_loop(_, _, _, _)
place_details_loop(service, rests, extended_restaurants, i) ==
    IF i > Len(rests)
    THEN [exc |-> "none", ret |-> Some(extended_restaurants)]
    ELSE LET restaurant == rests[i]
             status     == service.details[restaurant.place_id]
             resp_obj   == details_result(restaurant.place_id)
         IN  IF status # "ok"
             THEN [exc |-> status, ret |-> None]
             ELSE place_details_loop(service, rests,
                      Append(extended_restaurants,
                             [restaurant EXCEPT
                                 !.homepage     = resp_obj.website,
                                 !.maps_url     = resp_obj.url,
                                 !.phone_number = resp_obj.international_phone_number,
                                 !.adr          = resp_obj.formatted_address]),
                      i + 1)

place_details(service, rests) ==
    place_details_loop(service, rests, <<>>, 1)

\* the try block assigns the local restaurants twice; the function ends
\* without a return statement, so a call that does not raise returns None
search_restaurant(service) ==
    LET listed   == nearby_search(service, 0)
        detailed == IF listed.exc = "none"
                    THEN place_details(service, Val(listed.ret))
                    ELSE listed
    IN  IF detailed.exc \in HTTPError
        THEN [exc |-> "GoogleApiException", ret |-> None, restaurants |-> None]
        ELSE IF detailed.exc # "none"
        THEN [exc |-> detailed.exc, ret |-> None, restaurants |-> None]
        ELSE [exc |-> "none", ret |-> None, restaurants |-> detailed.ret]

SearchRestaurant ==
    /\ op = "none"
    /\ LET o == search_restaurant(args.service)
       IN  Pure("search_restaurant", args, o, [restaurants |-> o.restaurants])

\* the services with the given page sizes: place_ids count up over the
\* pages, a page that is not the last may name the next page as its token,
\* and at most one request fails
RECURSIVE Sum(_)
Sum(sizes) == IF sizes = <<>> THEN 0 ELSE Head(sizes) + Sum(Tail(sizes))

\* how a request fails: httpx.get raises on a network error, and
\* raise_for_status raises on a status that is not a success
FailedStatus == {"RequestError", "HTTPStatusError"}

Failures(n, places) ==
    {[at |-> "none", n |-> 0, status |-> "ok"]}
    \cup [at : {"page"}, n : 1..n, status : FailedStatus]
    \cup [at : {"details"}, n : 1..places, status : FailedStatus]

Services ==
    UNION {
        {[pages |->
             [k \in 1..Len(sizes) |->
                 [status  |-> IF fail.at = "page" /\ fail.n = k THEN fail.status ELSE "ok",
                  results |-> [j \in 1..sizes[k] |-> Sum(SubSeq(sizes, 1, k - 1)) + j],
                  next_page_token |-> IF k \in more THEN k ELSE 0]],
           details |->
             [q \in 1..Sum(sizes) |->
                 IF fail.at = "details" /\ fail.n = q THEN fail.status ELSE "ok"]] :
            more \in SUBSET (1..(Len(sizes) - 1)),
            fail \in Failures(Len(sizes), Sum(sizes))} :
        sizes \in UNION {[1..n -> 0..MaxPerPage] : n \in 1..MaxPages}}

InitGapi ==
    /\ users = {}
    /\ restaurants = {}
    /\ bewertungen = <<>>
    /\ op = "none"
    /\ \E service \in Services : args = [service |-> service]
    /\ exc = "none"
    /\ ret = None
    /\ pre = <<>>
    /\ NoProcs

NextGapi == SearchRestaurant

SpecGapi == InitGapi /\ [][NextGapi]_vars

----------------------------------------------------------------------------
(* services/service_res.py: search_for_restaurant *)

Reqs == 1..NumReqs

\* the for loop of fill_user_rating over rests[i..]: the lists it can leave,
\* one for each row the lookups can return
RECURSIVE fill_user_rating_loop(_, _, _, _)
fill_user_rating_loop(db, rests, user, i) ==
    IF i > Len(rests)
    THEN {rests}
    ELSE UNION {
            fill_user_rating_loop(db,
                IF assessment # None
                THEN [rests EXCEPT ![i].own_rating = Some(Val(assessment).rating)]
                ELSE rests,
                user, i + 1) :
            assessment \in get_bewertung_from_user_to_rest(db, user, rests[i].place_id)}

fill_user_rating(db, rests, user) == fill_user_rating_loop(db, rests, user, 1)

\* what tools.gapi.search_restaurant hands over: candidates of distinct
\* places, without an own rating
SearchStars == {None, Some(0), Some(MaxStars)}

SearchLists ==
    {l \in UNION {[1..k -> [place_id : PlaceIds, rating : SearchStars, own_rating : {None}]] :
                     k \in 0..MaxFound} :
        \A i, j \in 1..Len(l) : l[i].place_id = l[j].place_id => i = j}

Idle ==
    [user |-> "", user_f |-> [rating |-> 0], found |-> <<>>, rests |-> <<>>,
     restaurant |-> None, known |-> FALSE, overtook |-> {}, calls |-> <<>>,
     exc |-> "none"]

\* lines 110-113: the search, the filter, the enrichment and the draw; the
\* three stages work on one list object, which rests records. The search
\* hands over one of lists, the filter asks for one of ratings.
SfrSelectFrom(q, lists, ratings) ==
    /\ pc[q] = "idle"
    /\ \E user \in users, found \in lists, rating \in ratings :
         LET user_f   == [rating |-> rating]
             l        == [Idle EXCEPT !.user = user, !.user_f = user_f, !.found = found]
             filtered == apply_filter(found, user_f)
         IN  IF filtered.exc # "none"
             THEN /\ pc' = [pc EXCEPT ![q] = "raised"]
                  /\ loc' = [loc EXCEPT ![q] = [l EXCEPT !.exc = filtered.exc]]
             ELSE \E user_rests \in fill_user_rating(DB, Val(filtered.ret), user) :
                    \E o \in select_restaurant(user_rests) :
                       IF o.exc # "none"
                       THEN /\ pc' = [pc EXCEPT ![q] = "raised"]
                            /\ loc' = [loc EXCEPT ![q] =
                                          [l EXCEPT !.rests = o.rests, !.exc = o.exc]]
                       ELSE /\ pc' = [pc EXCEPT ![q] = "lookup"]
                            /\ loc' = [loc EXCEPT ![q] =
                                          [l EXCEPT !.rests = o.rests, !.restaurant = o.ret]]
    /\ UNCHANGED <<store, call>>

SfrSelect(q) == SfrSelectFrom(q, SearchLists, {0, MaxStars})

\* the requests for the same user and restaurant that have passed the
\* condition of line 114 and have not yet run the body of the if
BetweenCheckAndCreate(q) ==
    {r \in Reqs \ {q} :
        /\ pc[r] = "create"
        /\ loc[r].user = loc[q].user
        /\ Val(loc[r].restaurant).place_id = Val(loc[q].restaurant).place_id}

\* line 114 with the condition `get_restaurant_by_id(...) is None`
SfrLookup_if_unknown(q) ==
    /\ pc[q] = "lookup"
    /\ LET found_rest == get_restaurant_by_id(DB, Val(loc[q].restaurant).place_id)
       IN  IF found_rest = None
           THEN /\ pc' = [pc EXCEPT ![q] = "create"]
                /\ loc' = [loc EXCEPT ![q].known = FALSE,
                                      ![q].overtook = BetweenCheckAndCreate(q)]
           ELSE /\ pc' = [pc EXCEPT ![q] = "done"]
                /\ loc' = [loc EXCEPT ![q].known = TRUE,
                                      ![q].overtook = BetweenCheckAndCreate(q)]
    /\ UNCHANGED <<store, call>>

\* line 114: the condition of the if; overtook records the requests this
\* one ran its lookup alongside
SfrLookup(q) ==
    /\ pc[q] = "lookup"
    /\ LET found_rest == get_restaurant_by_id(DB, Val(loc[q].restaurant).place_id)
       IN  IF found_rest # None
           THEN /\ pc' = [pc EXCEPT ![q] = "create"]
                /\ loc' = [loc EXCEPT ![q].known = TRUE,
                                      ![q].overtook = BetweenCheckAndCreate(q)]
           ELSE /\ pc' = [pc EXCEPT ![q] = "done"]
                /\ loc' = [loc EXCEPT ![q].known = FALSE,
                                      ![q].overtook = BetweenCheckAndCreate(q)]
    /\ UNCHANGED <<store, call>>

\* lines 115-116: the body of the if; RestBewertungCreate(person=user,
\* restaurant=restaurant) carries the defaults of comment and rating
SfrCreate(q) ==
    /\ pc[q] = "create"
    /\ LET place_id == Val(loc[q].restaurant).place_id
           created  == create_restaurant(DB, place_id)
           added    == add_assessment(created.db,
                           [person |-> loc[q].user, place_id |-> place_id,
                            comment |-> "a", rating |-> 1])
           o        == IF created.exc # "none" THEN created ELSE added
       IN  /\ Len(bewertungen) < MaxRows
           /\ users' = o.db.users
           /\ restaurants' = o.db.restaurants
           /\ bewertungen' = o.db.bewertungen
           /\ pc' = [pc EXCEPT ![q] = IF o.exc # "none" THEN "raised" ELSE "done"]
           /\ loc' = [loc EXCEPT
                         ![q].exc = o.exc,
                         ![q].calls = IF created.exc # "none"
                                      THEN <<"create_restaurant">>
                                      ELSE <<"create_restaurant", "add_assessment">>]
    /\ UNCHANGED call

\* the stores the requests can meet: restaurants and ratings earlier calls
\* of create_restaurant and add_assessment left
StoredRows(places) ==
    [person_email : {"u1"}, place_id : places, kommentar : Comments, rating : Ratings]

InitSearch ==
    /\ users = {"u1"}
    /\ restaurants \in SUBSET PlaceIds
    /\ bewertungen \in UNION {[1..k -> StoredRows(restaurants)] : k \in 0..(MaxRows - 1)}
    /\ NoCall
    /\ pc = [q \in Reqs |-> "idle"]
    /\ loc = [q \in Reqs |-> Idle]

NextSearch ==
    \E q \in Reqs :
        \/ SfrSelect(q)
        \/ SfrLookup(q)
        \/ SfrCreate(q)

SpecSearch == InitSearch /\ [][NextSearch]_vars

\* concurrent requests whose search found a single place and whose filter
\* lets it pass, over a store with at most one rating
RaceLists ==
    {<<[place_id |-> p, rating |-> Some(MaxStars), own_rating |-> None]>> : p \in PlaceIds}

InitRace ==
    /\ users = {"u1"}
    /\ restaurants \in SUBSET PlaceIds
    /\ bewertungen \in {<<>>} \cup {<<b>> : b \in StoredRows(restaurants)}
    /\ NoCall
    /\ pc = [q \in Reqs |-> "idle"]
    /\ loc = [q \in Reqs |-> Idle]

NextRace ==
    \E q \in Reqs :
        \/ SfrSelectFrom(q, RaceLists, {0})
        \/ SfrLookup(q)
        \/ SfrCreate(q)

SpecRace == InitRace /\ [][NextRace]_vars

----------------------------------------------------------------------------
(* Properties of the rating store *)

SameKey(a, b) == a.person_email = b.person_email /\ a.place_id = b.place_id

\* C3: after any sequence of create, update and delete calls the store
\* holds at most one rating per (user, restaurant) pair.
C3_RatingUniqueness ==
    \A i, j \in 1..Len(bewertungen) :
        SameKey(bewertungen[i], bewertungen[j]) => i = j

IsUpdate == op \in {"update_bewertung", "update_assessment"}

\* C7: an update for a (user, restaurant) pair without a stored rating
\* returns without an error and leaves the store as it was; an update that
\* matches replaces the comment and the rating of the matching rows only.
C7_UpdateSilentNoOp ==
    IsUpdate =>
        LET m == Matching(pre, args.old.person, args.old.place_id)
        IN  /\ m = {} => exc = "none" /\ bewertungen = pre
            /\ Len(bewertungen) = Len(pre)
            /\ \A i \in 1..Len(pre) :
                   IF i \in m
                   THEN /\ SameKey(bewertungen[i], pre[i])
                        /\ bewertungen[i].kommentar = args.new.comment
                        /\ bewertungen[i].rating = args.new.rating
                   ELSE bewertungen[i] = pre[i]

IsCreate == op \in {"create_bewertung", "add_assessment"}

\* C8: create_bewertung raises the referential-integrity error when the
\* user or the restaurant of the assessment is not stored, and then the
\* bewertung table is as it was before; a row that is created references
\* a stored user and a stored restaurant.
C8_CreateChecksReferences ==
    IsCreate =>
        LET a == args.assessment
        IN  IF a.person \notin users \/ a.place_id \notin restaurants
            THEN exc = "InvalidRequestError" /\ bewertungen = pre
            ELSE /\ exc = "none"
                 /\ Len(bewertungen) = Len(pre) + 1
                 /\ SubSeq(bewertungen, 1, Len(pre)) = pre
                 /\ bewertungen[Len(bewertungen)].person_email \in users
                 /\ bewertungen[Len(bewertungen)].place_id \in restaurants

\* a create for a stored user and a restaurant that is not stored was
\* rejected while the table held a rating
C8_Witness ==
    /\ op = "create_bewertung"
    /\ args.assessment.person \in users
    /\ args.assessment.place_id \notin restaurants
    /\ exc = "InvalidRequestError"
    /\ Len(pre) > 0
    /\ bewertungen = pre

----------------------------------------------------------------------------
(* Properties of the filter stage *)

OrZero(o) == IF o = None THEN 0 ELSE Val(o)

IsFilter == op \in {"filter_rating", "apply_filter"}

\* C1: every candidate of the list the filter returns has an external
\* rating of at least the minimum rating, whatever the input list is.
C1_FilteredAtLeastMinimum ==
    IsFilter /\ exc = "none" =>
        \A k \in 1..Len(Val(ret)) :
            OrZero(Val(ret)[k].rating) >= args.user_f.rating

\* C2: with a positive minimum rating, a list holding a candidate without
\* an external rating is filtered without an error, and no such candidate
\* is in the list returned.
C2_AbsentRatingExcluded ==
    (/\ IsFilter
     /\ args.user_f.rating > 0
     /\ \E k \in 1..Len(args.rests) : args.rests[k].rating = None)
    => /\ exc = "none"
       /\ \A k \in 1..Len(Val(ret)) : Val(ret)[k].rating # None

----------------------------------------------------------------------------
(* Properties of the weighted draw *)

\* C5: from a list that is not empty select_restaurant returns one
\* candidate, and it is a candidate of that list; this includes the lists
\* whose candidates all have weight 0.
C5_DrawReturnsACandidate ==
    op = "select_restaurant" /\ args.rests # <<>> =>
        /\ exc = "none"
        /\ ret # None
        /\ \E k \in 1..Len(args.rests) : Val(ret).place_id = args.rests[k].place_id

\* C10: the weight of each candidate is own_rating * 4 + rating * 2 of the
\* candidate as it was passed in, a rating that is None counting as 0.
C10_WeightFormula ==
    op = "select_restaurant" =>
        /\ Len(loc.weights) = Len(args.rests)
        /\ \A k \in 1..Len(args.rests) :
               loc.weights[k] = OrZero(args.rests[k].own_rating) * 4
                                + OrZero(args.rests[k].rating) * 2

\* a candidate without an own rating and with external rating 5 got
\* weight 10, next to a candidate with both ratings set
C10_Witness ==
    /\ op = "select_restaurant"
    /\ Len(args.rests) = 2
    /\ args.rests[1].own_rating = None
    /\ args.rests[1].rating = Some(5)
    /\ loc.weights[1] = 10
    /\ args.rests[2].own_rating = Some(2)
    /\ args.rests[2].rating = Some(1)
    /\ loc.weights[2] = 10

----------------------------------------------------------------------------
(* Properties of the place-search client *)

\* the pages a client that follows the tokens asks for: page 1, and the
\* page each token names, up to the first page without a token
RECURSIVE Chain(_, _)
Chain(service, k) ==
    IF service.pages[k].next_page_token = 0
    THEN <<k>>
    ELSE <<k>> \o Chain(service, service.pages[k].next_page_token + 1)

RECURSIVE Listing(_, _)
Listing(service, chain) ==
    IF chain = <<>> THEN <<>>
    ELSE service.pages[Head(chain)].results \o Listing(service, Tail(chain))

Enriched(place_id) ==
    [place_id     |-> place_id,
     homepage     |-> Some([field |-> "website", of |-> place_id]),
     maps_url     |-> Some([field |-> "url", of |-> place_id]),
     phone_number |-> Some([field |-> "phone", of |-> place_id]),
     adr          |-> Some([field |-> "address", of |-> place_id])]

\* a request the search makes fails: a page on the token chain, or the
\* details of a place listed on it
SomeRequestFails(service) ==
    LET chain == Chain(service, 1)
        places == Listing(service, chain)
    IN  \/ \E k \in 1..Len(chain) : service.pages[chain[k]].status # "ok"
        \/ \E j \in 1..Len(places) : service.details[places[j]] # "ok"

\* C6: when no request fails, search_restaurant returns the candidates of
\* all pages on the token chain, in page order, each with its detail
\* fields filled in.
C6_ReturnsAllPagesEnriched ==
    op = "search_restaurant" /\ ~SomeRequestFails(args.service) =>
        LET places == Listing(args.service, Chain(args.service, 1))
        IN  /\ exc = "none"
            /\ ret = Some([j \in 1..Len(places) |-> Enriched(places[j])])

\* C9: when a request of the listing or of the details phase fails,
\* search_restaurant raises GoogleApiException and returns no list.
C9_FailureAbortsSearch ==
    op = "search_restaurant" /\ SomeRequestFails(args.service) =>
        /\ exc = "GoogleApiException"
        /\ ret = None

\* the details request of the second place of a two-page listing failed on
\* the network, after the first place was enriched
C9_Witness ==
    /\ op = "search_restaurant"
    /\ Len(Chain(args.service, 1)) = 2
    /\ Len(args.service.details) >= 2
    /\ args.service.details[1] = "ok"
    /\ args.service.details[2] = "RequestError"
    /\ exc = "GoogleApiException"
    /\ ret = None

----------------------------------------------------------------------------
(* Properties of search_for_restaurant *)

Finished(q) == pc[q] \in {"done", "raised"}

HasRating(user, place_id) == Matching(bewertungen, user, place_id) # {}

\* C4: once a request that chose a restaurant has ended, a restaurant that
\* the store did not know is stored together with a rating of the
\* requesting user for it, and a restaurant that the store knew was not
\* created again.
C4_BookkeepingOfNewRestaurant ==
    \A q \in Reqs :
        Finished(q) /\ loc[q].restaurant # None =>
            IF loc[q].known
            THEN \A k \in 1..Len(loc[q].calls) : loc[q].calls[k] # "create_restaurant"
            ELSE /\ pc[q] = "done"
                 /\ Val(loc[q].restaurant).place_id \in restaurants
                 /\ HasRating(loc[q].user, Val(loc[q].restaurant).place_id)

\* two requests of one user for one restaurant of which the second ran its
\* lookup while the first was between its lookup and its create
Raced(q, r) == r \in loc[q].overtook

RatingsOf(q) ==
    Cardinality(Matching(bewertungen, loc[q].user, Val(loc[q].restaurant).place_id))

RaceOutcome ==
    \A q \in Reqs : \A r \in Reqs :
        Raced(q, r) /\ Finished(q) /\ Finished(r) =>
            /\ loc[q].exc = "IntegrityError"
            /\ loc[r].exc = "IntegrityError"
            /\ loc[q].calls = <<"create_restaurant">>
            /\ loc[r].calls = <<"create_restaurant">>

FoundAs(q, place_id) ==
    CHOOSE c \in {loc[q].found[k] : k \in 1..Len(loc[q].found)} : c.place_id = place_id

\* the ratings the store holds of the requesting user for place_id; no
\* request changes the store between its enrichment and its return
StoredRatings(q, place_id) ==
    {bewertungen[i].rating : i \in Matching(bewertungen, loc[q].user, place_id)}

\* C12: the candidate a request returns differs from the candidate the
\* search handed over in its own rating only, and only by carrying the
\* stored rating of the requesting user; its external rating is as it was,
\* and without a stored rating its own rating is as it was (None).
C12_PipelineChangesOwnRatingOnly ==
    \A q \in Reqs :
        loc[q].restaurant # None =>
            LET returned == Val(loc[q].restaurant)
                handed   == FoundAs(q, returned.place_id)
                stored   == StoredRatings(q, returned.place_id)
            IN  /\ returned.rating = handed.rating
                /\ IF stored = {}
                   THEN returned.own_rating = handed.own_rating
                   ELSE \E v \in stored : returned.own_rating = Some(v)

====
